---- MODULE Spec2Model ----
(***************************************************************************)
(* A model of src/central.rs: the BLE central wrapper `Central`.           *)
(*                                                                         *)
(* The platform BLE stack (btleplug) is the environment: it delivers       *)
(* adapter events, answers peripheral lookups, property fetches, connect,  *)
(* service discovery, read, write and subscribe, each with a               *)
(* nondeterministic Ok/Err outcome.  Every `.await` of the source is one   *)
(* step of the model.                                                      *)
(***************************************************************************)
EXTENDS Naturals, Sequences, FiniteSets

(***************************************************************************)
(* Bounds of the model.                                                    *)
(***************************************************************************)
MaxEvents == 3      \* adapter events the platform delivers in one behaviour
MaxEndPolls == 2    \* polls of the exhausted stream that are counted
MaxOps == 2         \* read / write / subscribe calls in one behaviour
MaxNotifs == 3      \* value notifications the platform delivers
MaxCallEvents == 2  \* adapter events delivered where calls follow find_peripheral
MaxAdapters == 2    \* adapters the platform enumerates

(***************************************************************************)
(* The environment's small universes.                                      *)
(***************************************************************************)
Ids == {1, 2}                                   \* peripheral identifiers
EventKinds == {"DeviceDiscovered", "DeviceUpdated"}
Events == [kind : EventKinds, id : Ids]

Foo == <<"F", "o", "o">>
FooBar == <<"F", "o", "o", "B", "a", "r">>
Bar == <<"B", "a", "r">>
LowerFoo == <<"f", "o", "o">>
Names == {FooBar, Bar, LowerFoo}                \* advertised local names
Needles == {Foo, Bar}                           \* names asked for

VARIABLES
    host,         \* the platform: [mgr, enum] outcomes of PlatformManager::new / adapters()
    central,      \* the result of Central::new(): Pending, Ok(adapter) or Err(e)
    delivered,    \* the events the adapter has delivered so far, in order
    adapterOpen,  \* FALSE once the adapter's event stream has terminated
    scanStarts,   \* number of start_scan calls issued on the adapter
    scanning,     \* "off", or the filter of the scan requested on the adapter
    conn,         \* per peripheral: Discovered / Connected / ServicesResolved
    chars,        \* per peripheral: its resolved characteristic list
    pc,           \* per session ("find", "props"): where the call stands
    rx,           \* per session: the event receiver [from, pos] into delivered
    cur,          \* per session: the item in flight [idx, id], idx = 0 if none
    lookups,      \* per session: adapter.peripheral(id) calls made
    periphOut,    \* per session: items emitted by the peripherals() stream
    fetches,      \* per session: peripheral.properties() calls made
    result,       \* per session: the call's result: pending, ok or err
    trace,        \* per session: the platform steps the call awaited, in order
    needle,       \* find_peripheral's local_name argument
    findCalls,    \* connect / discover_services calls issued by find_peripheral
    endPolls,     \* polls of the exhausted stream by find_peripheral's loop
    propsOut,     \* items emitted by the peripheral_properties() stream
    op,           \* the current read / write / subscribe call
    opCalls,      \* platform calls issued by the current call
    nOps,         \* number of read / write / subscribe calls made
    charLookups,  \* characteristic lookups made: the peripheral and its state
    subscribed,   \* per peripheral: the characteristics subscribed on the platform
    sub,          \* the notification stream the last subscribe returned
    notifs,       \* notifications the peripheral delivered to that stream
    subOut        \* items that stream yielded

platformVars == <<host, central, delivered, adapterOpen, scanStarts, scanning, conn, chars>>
streamVars == <<pc, rx, cur, lookups, periphOut, fetches, result, trace>>
findVars == <<needle, findCalls, endPolls>>
propsVars == <<propsOut>>
opVars == <<op, opCalls, nOps, charLookups, subscribed, sub, notifs, subOut>>
vars == <<platformVars, streamVars, findVars, propsVars, opVars>>

Sessions == {"find", "props"}
NoItem == [idx |-> 0, id |-> 0]
\* a platform step a call awaited: its name, the stream item it is for (0 if
\* none) and whether the platform answered Ok
Step(name, idx, ok) == [step |-> name, idx |-> idx, ok |-> ok]
Pending == [tag |-> "pending", p |-> 0, e |-> "none"]
Ok(p) == [tag |-> "ok", p |-> p, e |-> "none"]
Err(e) == [tag |-> "err", p |-> 0, e |-> e]

OpPending == [tag |-> "pending", val |-> <<>>, e |-> "none"]
OpOk(v) == [tag |-> "ok", val |-> v, e |-> "none"]
OpErr(e) == [tag |-> "err", val |-> <<>>, e |-> e]

(***************************************************************************)
(* Uuid::from_bytes of as_bytes: a Uuid is rebuilt from the bytes of       *)
(* the platform's Uuid before it is compared.                              *)
(***************************************************************************)
AsBytes(u) == u.bytes
UuidFromBytes(b) == [bytes |-> b]
UuidA == [bytes |-> <<10, 1>>]
UuidB == [bytes |-> <<11, 1>>]
UuidC == [bytes |-> <<10, 2>>]
Uuids == {UuidA, UuidB, UuidC}

(***************************************************************************)
(* Characteristic lists a service discovery can resolve, in the iteration  *)
(* order of peripheral.characteristics().                                  *)
(***************************************************************************)
Chr(u, svc, fl) == [uuid |-> u, service |-> svc, properties |-> fl]
TableOne ==
    << Chr(UuidA, 1, {"READ"}),
       Chr(UuidA, 2, {"READ", "WRITE", "NOTIFY"}),
       Chr(UuidB, 1, {"WRITE_WITHOUT_RESPONSE", "NOTIFY"}) >>
TableTwo ==
    << Chr(UuidA, 1, {"WRITE", "NOTIFY"}),
       Chr(UuidB, 1, {"READ", "NOTIFY", "INDICATE"}) >>
CharTables == {TableOne, TableTwo}

OpKinds == {"read", "write", "subscribe"}
Payloads == {<<1, 2>>, <<>>}                    \* byte payloads written
ReadValue == <<7>>                              \* the bytes a platform read returns
\* the data argument of a call: write alone takes one
OpData(kind) == IF kind = "write" THEN Payloads ELSE {<<>>}
NoOp == [kind |-> "none", p |-> 0, uuid |-> UuidA, data |-> <<>>, chr |-> 0,
         pc |-> "idle", result |-> OpPending]
NoSub == [active |-> FALSE, p |-> 0, uuid |-> UuidA, pos |-> 0]

\* a match by equality of the whole name
ContainsWhole(hay, pat) == hay = pat

(***************************************************************************)
(* str::contains(&str): substring containment, character by character.     *)
(***************************************************************************)
Contains(hay, pat) ==
    \E i \in 0..Len(hay) :
        /\ i + Len(pat) <= Len(hay)
        /\ SubSeq(hay, i + 1, i + Len(pat)) = pat

(***************************************************************************)
(* The outcomes of peripheral.properties(): Err, Ok(None), Ok(Some) with   *)
(* local_name None, Ok(Some) with a local name.                            *)
(***************************************************************************)
FetchOutcomes ==
    {[tag |-> t, name |-> <<>>] : t \in {"err", "absent", "noname"}}
        \cup {[tag |-> "name", name |-> n] : n \in Names}

\* the adapter enumerations: lists of distinct adapters, or a platform error
AdapterIds == {1, 2, 3}
AdapterLists ==
    {l \in UNION {[1..n -> AdapterIds] : n \in 0..MaxAdapters} :
        \A i, j \in 1..Len(l) : i # j => l[i] # l[j]}
Hosts ==
    [mgr : BOOLEAN,
     enum : [ok : {FALSE}, list : {<<>>}] \cup [ok : {TRUE}, list : AdapterLists]]
HostOne == [mgr |-> TRUE, enum |-> [ok |-> TRUE, list |-> <<1>>]]

\* the state of the platform and of the sessions when no call was made yet
Fresh ==
    /\ delivered = <<>>
    /\ adapterOpen = TRUE
    /\ scanStarts = 0
    /\ scanning = "off"
    /\ conn = [i \in Ids |-> "Discovered"]
    /\ chars = [i \in Ids |-> <<>>]
    /\ pc = [s \in Sessions |-> "idle"]
    /\ rx = [s \in Sessions |-> [from |-> 0, pos |-> 0]]
    /\ cur = [s \in Sessions |-> NoItem]
    /\ lookups = [s \in Sessions |-> <<>>]
    /\ periphOut = [s \in Sessions |-> <<>>]
    /\ fetches = [s \in Sessions |-> <<>>]
    /\ result = [s \in Sessions |-> Pending]
    /\ trace = [s \in Sessions |-> <<>>]
    /\ needle = <<>>
    /\ findCalls = <<>>
    /\ endPolls = 0
    /\ propsOut = <<>>
    /\ op = NoOp
    /\ opCalls = <<>>
    /\ nOps = 0
    /\ charLookups = {}
    /\ subscribed = [i \in Ids |-> {}]
    /\ sub = NoSub
    /\ notifs = <<>>
    /\ subOut = <<>>

Init ==
    /\ host = HostOne
    /\ central = Ok(1)
    /\ Fresh

(***************************************************************************)
(* new(): PlatformManager::new().await?, manager.adapters().await?, then   *)
(* the first adapter of the enumeration or AdapterNotFound.                *)
(***************************************************************************)
\* a selection of the enumeration's last adapter
NthLast(adapters) ==
    IF adapters = <<>> THEN Err("AdapterNotFound") ELSE Ok(adapters[Len(adapters)])

Nth0(adapters) ==
    IF adapters = <<>> THEN Err("AdapterNotFound") ELSE Ok(adapters[1])

InitNew ==
    /\ host \in Hosts
    /\ central = Pending
    /\ Fresh

New ==
    /\ central = Pending
    /\ central' = IF ~host.mgr THEN Err("BtlePlug")
                  ELSE IF ~host.enum.ok THEN Err("BtlePlug")
                  ELSE Nth0(host.enum.list)
    /\ UNCHANGED <<host, delivered, adapterOpen, scanStarts, scanning, conn, chars>>
    /\ UNCHANGED <<streamVars, findVars, propsVars, opVars>>

(***************************************************************************)
(* The platform: the adapter delivers events to every receiver and may     *)
(* shut down, which terminates its event streams.                          *)
(***************************************************************************)
Deliver(e) ==
    /\ adapterOpen
    /\ Len(delivered) < MaxEvents
    /\ delivered' = Append(delivered, e)
    /\ UNCHANGED <<host, central, adapterOpen, scanStarts, scanning, conn, chars>>
    /\ UNCHANGED <<streamVars, findVars, propsVars, opVars>>

AdapterShutdown ==
    /\ adapterOpen
    /\ adapterOpen' = FALSE
    /\ UNCHANGED <<host, central, delivered, scanStarts, scanning, conn, chars>>
    /\ UNCHANGED <<streamVars, findVars, propsVars, opVars>>

(***************************************************************************)
(* events(): adapter.events().await?, then start_scan(..).await?.          *)
(***************************************************************************)
EventsCall(s, ok) ==
    /\ central.tag = "ok"
    /\ pc[s] = "idle"
    /\ IF ok
       THEN /\ rx' = [rx EXCEPT ![s] = [from |-> Len(delivered), pos |-> Len(delivered)]]
            /\ pc' = [pc EXCEPT ![s] = "scan"]
            /\ UNCHANGED result
       ELSE /\ pc' = [pc EXCEPT ![s] = "done"]
            /\ result' = [result EXCEPT ![s] = Err("BtlePlug")]
            /\ UNCHANGED rx
    /\ trace' = [trace EXCEPT ![s] = Append(@, Step("events", 0, ok))]
    /\ UNCHANGED <<cur, lookups, periphOut, fetches>>
    /\ UNCHANGED platformVars

\* ScanFilter::default(): no advertisement filter
ScanFilterDefault == "unfiltered"

\* a scan start whose failure is not propagated
StartScanIgnoreError(s, ok) ==
    /\ pc[s] = "scan"
    /\ scanStarts' = scanStarts + 1
    /\ scanning' = IF ok THEN ScanFilterDefault ELSE scanning
    /\ IF s = "find"
       THEN /\ pc' = [pc EXCEPT ![s] = "pull"]
            /\ UNCHANGED result
       ELSE /\ pc' = [pc EXCEPT ![s] = "ready"]
            /\ result' = [result EXCEPT ![s] = Ok(0)]
    /\ trace' = [trace EXCEPT ![s] = Append(@, Step("start_scan", 0, ok))]
    /\ UNCHANGED <<rx, cur, lookups, periphOut, fetches>>
    /\ UNCHANGED <<host, central, delivered, adapterOpen, conn, chars>>
    /\ UNCHANGED <<findVars, propsVars, opVars>>

\* a scan start that is skipped when the adapter is already scanning
StartScanOnce(s, ok) ==
    /\ pc[s] = "scan"
    /\ IF scanning # "off"
       THEN /\ UNCHANGED <<scanStarts, scanning, trace>>
            /\ IF s = "find"
               THEN /\ pc' = [pc EXCEPT ![s] = "pull"]
                    /\ UNCHANGED result
               ELSE /\ pc' = [pc EXCEPT ![s] = "ready"]
                    /\ result' = [result EXCEPT ![s] = Ok(0)]
       ELSE /\ scanStarts' = scanStarts + 1
            /\ trace' = [trace EXCEPT ![s] = Append(@, Step("start_scan", 0, ok))]
            /\ IF ok
               THEN /\ scanning' = ScanFilterDefault
                    /\ IF s = "find"
                       THEN /\ pc' = [pc EXCEPT ![s] = "pull"]
                            /\ UNCHANGED result
                       ELSE /\ pc' = [pc EXCEPT ![s] = "ready"]
                            /\ result' = [result EXCEPT ![s] = Ok(0)]
               ELSE /\ pc' = [pc EXCEPT ![s] = "done"]
                    /\ result' = [result EXCEPT ![s] = Err("BtlePlug")]
                    /\ UNCHANGED scanning
    /\ UNCHANGED <<rx, cur, lookups, periphOut, fetches>>
    /\ UNCHANGED <<host, central, delivered, adapterOpen, conn, chars>>
    /\ UNCHANGED <<findVars, propsVars, opVars>>

StartScan(s, ok) ==
    /\ pc[s] = "scan"
    /\ scanStarts' = scanStarts + 1
    /\ IF ok
       THEN /\ scanning' = ScanFilterDefault
            /\ IF s = "find"
               THEN /\ pc' = [pc EXCEPT ![s] = "pull"]
                    /\ UNCHANGED result
               ELSE /\ pc' = [pc EXCEPT ![s] = "ready"]
                    /\ result' = [result EXCEPT ![s] = Ok(0)]
       ELSE /\ pc' = [pc EXCEPT ![s] = "done"]
            /\ result' = [result EXCEPT ![s] = Err("BtlePlug")]
            /\ UNCHANGED scanning
    /\ trace' = [trace EXCEPT ![s] = Append(@, Step("start_scan", 0, ok))]
    /\ UNCHANGED <<rx, cur, lookups, periphOut, fetches>>
    /\ UNCHANGED <<host, central, delivered, adapterOpen, conn, chars>>
    /\ UNCHANGED <<findVars, propsVars, opVars>>

FindCall(n, ok) ==
    /\ needle' = n
    /\ EventsCall("find", ok)
    /\ UNCHANGED <<findCalls, endPolls, propsVars, opVars>>

PropsCall(ok) ==
    /\ EventsCall("props", ok)
    /\ UNCHANGED <<findVars, propsVars, opVars>>

(***************************************************************************)
(* peripherals(): the filter_map over the adapter's events.  One event is  *)
(* taken per step; a DeviceUpdated event is looked up through the adapter, *)
(* any other event is dropped.                                             *)
(***************************************************************************)
\* a projection that looks up every event that carries an identifier
IsAnyDeviceEvent(ev) == ev.kind \in EventKinds

IsDeviceUpdated(ev) == ev.kind = "DeviceUpdated"

\* a stage that hands the newest item out ahead of the ones before it
EmitAhead(out, item) == <<item>> \o out

Emit(out, item) == Append(out, item)

ProjPull(s) ==
    /\ pc[s] = "pull"
    /\ rx[s].pos < Len(delivered)
    /\ LET i == rx[s].pos + 1
           ev == delivered[i]
       IN  /\ rx' = [rx EXCEPT ![s].pos = i]
           /\ IF IsDeviceUpdated(ev)
              THEN /\ pc' = [pc EXCEPT ![s] = "lookup"]
                   /\ cur' = [cur EXCEPT ![s] = [idx |-> i, id |-> ev.id]]
              ELSE UNCHANGED <<pc, cur>>
    /\ UNCHANGED <<lookups, periphOut, fetches, result, trace>>
    /\ UNCHANGED <<platformVars, findVars, propsVars, opVars>>

ProjLookup(s, ok) ==
    /\ pc[s] = "lookup"
    /\ lookups' = [lookups EXCEPT ![s] =
                      Append(@, [idx |-> cur[s].idx, id |-> cur[s].id, ok |-> ok])]
    /\ IF ok
       THEN /\ periphOut' = [periphOut EXCEPT ![s] = Emit(@, cur[s])]
            /\ pc' = [pc EXCEPT ![s] = "fetch"]
            /\ UNCHANGED cur
       ELSE /\ pc' = [pc EXCEPT ![s] = "pull"]
            /\ cur' = [cur EXCEPT ![s] = NoItem]
            /\ UNCHANGED periphOut
    /\ UNCHANGED <<rx, fetches, result, trace>>
    /\ UNCHANGED <<platformVars, findVars, propsVars, opVars>>

(***************************************************************************)
(* find_peripheral: the loop over peripherals.next(), then connect and     *)
(* discover_services.                                                      *)
(***************************************************************************)
\* a loop that skips a peripheral whose properties or name are missing
FindOutcomeSkip(o, n) ==
    IF o.tag = "name" /\ Contains(o.name, n) THEN Ok(1) ELSE Pending

FindOutcome(o, n) ==
    CASE o.tag = "err" -> Err("BtlePlug")
      [] o.tag = "absent" -> Err("PeripheralPropertiesNotFound")
      [] o.tag = "noname" -> Err("LocalNameNotFound")
      [] OTHER -> IF Contains(o.name, n) THEN Ok(1) ELSE Pending

\* a loop that gives up when the stream yields None
FindStreamEndReturns ==
    /\ pc["find"] = "pull"
    /\ rx["find"].pos = Len(delivered)
    /\ ~adapterOpen
    /\ endPolls < MaxEndPolls
    /\ endPolls' = endPolls + 1
    /\ pc' = [pc EXCEPT !["find"] = "done"]
    /\ result' = [result EXCEPT !["find"] = Err("PeripheralNotFound")]
    /\ UNCHANGED <<rx, cur, lookups, periphOut, fetches, trace>>
    /\ UNCHANGED <<needle, findCalls, propsVars, opVars>>
    /\ UNCHANGED platformVars

FindStreamEnd ==
    /\ pc["find"] = "pull"
    /\ rx["find"].pos = Len(delivered)
    /\ ~adapterOpen
    /\ endPolls < MaxEndPolls
    /\ endPolls' = endPolls + 1
    /\ UNCHANGED <<needle, findCalls, propsVars, opVars>>
    /\ UNCHANGED <<platformVars, streamVars>>

FindFetch(o) ==
    /\ pc["find"] = "fetch"
    /\ fetches' = [fetches EXCEPT !["find"] =
                      Append(@, [idx |-> cur["find"].idx, id |-> cur["find"].id, out |-> o])]
    /\ LET r == FindOutcome(o, needle)
       IN  CASE r.tag = "err" ->
                    /\ result' = [result EXCEPT !["find"] = r]
                    /\ pc' = [pc EXCEPT !["find"] = "done"]
                    /\ cur' = [cur EXCEPT !["find"] = NoItem]
             [] r.tag = "ok" ->
                    /\ pc' = [pc EXCEPT !["find"] = "connect"]
                    /\ UNCHANGED <<result, cur>>
             [] OTHER ->
                    /\ pc' = [pc EXCEPT !["find"] = "pull"]
                    /\ cur' = [cur EXCEPT !["find"] = NoItem]
                    /\ UNCHANGED result
    /\ trace' = [trace EXCEPT !["find"] =
                    Append(@, Step("properties", cur["find"].idx, o.tag # "err"))]
    /\ UNCHANGED <<rx, lookups, periphOut>>
    /\ UNCHANGED <<platformVars, findVars, propsVars, opVars>>

\* connect() that is tried again when it fails
FindConnectRetry(ok) ==
    /\ pc["find"] = "connect"
    /\ findCalls' = Append(findCalls, [call |-> "connect", p |-> cur["find"].id])
    /\ IF ok
       THEN /\ conn' = [conn EXCEPT ![cur["find"].id] =
                           IF @ = "Discovered" THEN "Connected" ELSE @]
            /\ pc' = [pc EXCEPT !["find"] = "discover"]
       ELSE UNCHANGED <<conn, pc>>
    /\ trace' = [trace EXCEPT !["find"] = Append(@, Step("connect", 0, ok))]
    /\ UNCHANGED <<host, central, delivered, adapterOpen, scanStarts, scanning, chars>>
    /\ UNCHANGED <<rx, cur, lookups, periphOut, fetches, result>>
    /\ UNCHANGED <<needle, endPolls, propsVars, opVars>>

\* connect() whose error is not propagated: service discovery follows anyway
FindConnectUnchecked(ok) ==
    /\ pc["find"] = "connect"
    /\ findCalls' = Append(findCalls, [call |-> "connect", p |-> cur["find"].id])
    /\ pc' = [pc EXCEPT !["find"] = "discover"]
    /\ IF ok
       THEN conn' = [conn EXCEPT ![cur["find"].id] =
                        IF @ = "Discovered" THEN "Connected" ELSE @]
       ELSE UNCHANGED conn
    /\ trace' = [trace EXCEPT !["find"] = Append(@, Step("connect", 0, ok))]
    /\ UNCHANGED <<host, central, delivered, adapterOpen, scanStarts, scanning, chars>>
    /\ UNCHANGED <<rx, cur, lookups, periphOut, fetches, result>>
    /\ UNCHANGED <<needle, endPolls, propsVars, opVars>>

FindConnect(ok) ==
    /\ pc["find"] = "connect"
    /\ findCalls' = Append(findCalls, [call |-> "connect", p |-> cur["find"].id])
    /\ IF ok
       THEN /\ conn' = [conn EXCEPT ![cur["find"].id] =
                           IF @ = "Discovered" THEN "Connected" ELSE @]
            /\ pc' = [pc EXCEPT !["find"] = "discover"]
            /\ UNCHANGED result
       ELSE /\ result' = [result EXCEPT !["find"] = Err("BtlePlug")]
            /\ pc' = [pc EXCEPT !["find"] = "done"]
            /\ UNCHANGED conn
    /\ trace' = [trace EXCEPT !["find"] = Append(@, Step("connect", 0, ok))]
    /\ UNCHANGED <<host, central, delivered, adapterOpen, scanStarts, scanning, chars>>
    /\ UNCHANGED <<rx, cur, lookups, periphOut, fetches>>
    /\ UNCHANGED <<needle, endPolls, propsVars, opVars>>

\* discover_services() whose error is not propagated: the peripheral is returned
FindDiscoverUnchecked(ok, tbl) ==
    /\ pc["find"] = "discover"
    /\ findCalls' = Append(findCalls, [call |-> "discover_services", p |-> cur["find"].id])
    /\ pc' = [pc EXCEPT !["find"] = "done"]
    /\ result' = [result EXCEPT !["find"] = Ok(cur["find"].id)]
    /\ IF ok
       THEN /\ conn' = [conn EXCEPT ![cur["find"].id] = "ServicesResolved"]
            /\ chars' = [chars EXCEPT ![cur["find"].id] = tbl]
       ELSE UNCHANGED <<conn, chars>>
    /\ trace' = [trace EXCEPT !["find"] = Append(@, Step("discover_services", 0, ok))]
    /\ UNCHANGED <<host, central, delivered, adapterOpen, scanStarts, scanning>>
    /\ UNCHANGED <<rx, cur, lookups, periphOut, fetches>>
    /\ UNCHANGED <<needle, endPolls, propsVars, opVars>>

FindDiscover(ok, tbl) ==
    /\ pc["find"] = "discover"
    /\ findCalls' = Append(findCalls, [call |-> "discover_services", p |-> cur["find"].id])
    /\ pc' = [pc EXCEPT !["find"] = "done"]
    /\ IF ok
       THEN /\ conn' = [conn EXCEPT ![cur["find"].id] = "ServicesResolved"]
            /\ chars' = [chars EXCEPT ![cur["find"].id] = tbl]
            /\ result' = [result EXCEPT !["find"] = Ok(cur["find"].id)]
       ELSE /\ result' = [result EXCEPT !["find"] = Err("BtlePlug")]
            /\ UNCHANGED <<conn, chars>>
    /\ trace' = [trace EXCEPT !["find"] = Append(@, Step("discover_services", 0, ok))]
    /\ UNCHANGED <<host, central, delivered, adapterOpen, scanStarts, scanning>>
    /\ UNCHANGED <<rx, cur, lookups, periphOut, fetches>>
    /\ UNCHANGED <<needle, endPolls, propsVars, opVars>>

(***************************************************************************)
(* peripheral_properties(): the filter_map over peripherals().  The        *)
(* consumer asks for the next item; an item whose properties() call fails  *)
(* or yields None is dropped.                                              *)
(***************************************************************************)
\* a projection that also drops the properties that carry no local name
PropsOutcomeNamed(o) == o.tag = "name"

PropsOutcome(o) == o.tag \notin {"err", "absent"}

PropsNext ==
    /\ pc["props"] = "ready"
    /\ pc' = [pc EXCEPT !["props"] = "pull"]
    /\ UNCHANGED <<rx, cur, lookups, periphOut, fetches, result, trace>>
    /\ UNCHANGED <<platformVars, findVars, propsVars, opVars>>

PropsStreamEnd ==
    /\ pc["props"] = "pull"
    /\ rx["props"].pos = Len(delivered)
    /\ ~adapterOpen
    /\ pc' = [pc EXCEPT !["props"] = "ended"]
    /\ UNCHANGED <<rx, cur, lookups, periphOut, fetches, result, trace>>
    /\ UNCHANGED <<platformVars, findVars, propsVars, opVars>>

\* the consumer drops the stream between two polls
PropsDrop ==
    /\ pc["props"] = "ready"
    /\ pc' = [pc EXCEPT !["props"] = "dropped"]
    /\ UNCHANGED <<rx, cur, lookups, periphOut, fetches, result, trace>>
    /\ UNCHANGED <<platformVars, findVars, propsVars, opVars>>

\* a stage that goes on to the next event after handing an item out
PropsFetchEager(o) ==
    /\ pc["props"] = "fetch"
    /\ fetches' = [fetches EXCEPT !["props"] =
                      Append(@, [idx |-> cur["props"].idx, id |-> cur["props"].id, out |-> o])]
    /\ cur' = [cur EXCEPT !["props"] = NoItem]
    /\ IF PropsOutcome(o)
       THEN propsOut' = Emit(propsOut, [idx |-> cur["props"].idx, props |-> o])
       ELSE UNCHANGED propsOut
    /\ pc' = [pc EXCEPT !["props"] = "pull"]
    /\ trace' = [trace EXCEPT !["props"] =
                    Append(@, Step("properties", cur["props"].idx, o.tag # "err"))]
    /\ UNCHANGED <<rx, lookups, periphOut, result>>
    /\ UNCHANGED <<platformVars, findVars, opVars>>

PropsFetch(o) ==
    /\ pc["props"] = "fetch"
    /\ fetches' = [fetches EXCEPT !["props"] =
                      Append(@, [idx |-> cur["props"].idx, id |-> cur["props"].id, out |-> o])]
    /\ cur' = [cur EXCEPT !["props"] = NoItem]
    /\ IF PropsOutcome(o)
       THEN /\ propsOut' = Emit(propsOut, [idx |-> cur["props"].idx, props |-> o])
            /\ pc' = [pc EXCEPT !["props"] = "ready"]
       ELSE /\ pc' = [pc EXCEPT !["props"] = "pull"]
            /\ UNCHANGED propsOut
    /\ trace' = [trace EXCEPT !["props"] =
                    Append(@, Step("properties", cur["props"].idx, o.tag # "err"))]
    /\ UNCHANGED <<rx, lookups, periphOut, result>>
    /\ UNCHANGED <<platformVars, findVars, opVars>>

(***************************************************************************)
(* read / write / subscribe.  The peripherals a caller holds are those     *)
(* find_peripheral returned.  The synchronous part of a call (lookup of    *)
(* the characteristic and the check of its flags) is one step; each        *)
(* platform call that follows is one step.                                 *)
(***************************************************************************)
Handles == IF result["find"].tag = "ok" THEN {result["find"].p} ELSE {}

\* a lookup that yields the last characteristic with the UUID
FindChrLast(tbl, uuid) ==
    LET hits == {i \in 1..Len(tbl) : UuidFromBytes(AsBytes(tbl[i].uuid)) = uuid}
    IN  IF hits = {} THEN 0 ELSE CHOOSE i \in hits : \A j \in hits : i >= j

\* a lookup that falls back on the first characteristic when none matches
FindChrOrFirst(tbl, uuid) ==
    LET hits == {i \in 1..Len(tbl) : UuidFromBytes(AsBytes(tbl[i].uuid)) = uuid}
    IN  IF hits = {} THEN (IF Len(tbl) > 0 THEN 1 ELSE 0)
        ELSE CHOOSE i \in hits : \A j \in hits : i <= j

\* characteristics.iter().find(|c| Uuid::from_bytes(c.uuid.as_bytes()) == uuid):
\* the index of the first match, 0 if there is none
FindChr(tbl, uuid) ==
    LET hits == {i \in 1..Len(tbl) : UuidFromBytes(AsBytes(tbl[i].uuid)) = uuid}
    IN  IF hits = {} THEN 0 ELSE CHOOSE i \in hits : \A j \in hits : i <= j

\* a gate that only asks whether the characteristic has any flag at all
HasFlagAny(properties, flag) == properties # {}

\* characteristic.properties.iter().any(|c| c == flag)
HasFlag(properties, flag) == \E c \in properties : c = flag

RequiredFlag(kind) ==
    CASE kind = "read" -> "READ"
      [] kind = "write" -> "WRITE"
      [] OTHER -> "NOTIFY"

CapabilityError(kind) ==
    CASE kind = "read" -> "CharacteristicDoesNotSupportRead"
      [] kind = "write" -> "CharacteristicDoesNotSupportWrite"
      [] OTHER -> "CharacteristicDoesNotSupportNotify"

\* a gate that lets a write through on either of the two write flags
GateEitherWrite(kind, tbl, c) ==
    IF c = 0 THEN OpErr("CharacteristicNotFound")
    ELSE IF kind = "write"
         THEN IF \/ HasFlag(tbl[c].properties, "WRITE")
                 \/ HasFlag(tbl[c].properties, "WRITE_WITHOUT_RESPONSE")
              THEN OpPending
              ELSE OpErr(CapabilityError(kind))
         ELSE IF ~HasFlag(tbl[c].properties, RequiredFlag(kind))
              THEN OpErr(CapabilityError(kind))
              ELSE OpPending

\* the result of the synchronous part: an error, or pending the platform call
Gate(kind, tbl, c) ==
    IF c = 0 THEN OpErr("CharacteristicNotFound")
    ELSE IF ~HasFlag(tbl[c].properties, RequiredFlag(kind))
         THEN OpErr(CapabilityError(kind))
         ELSE OpPending

OpCall(kind, p, uuid, data) ==
    /\ op.pc \in {"idle", "done"}
    /\ nOps < MaxOps
    /\ p \in Handles
    /\ nOps' = nOps + 1
    /\ charLookups' = charLookups \cup {[p |-> p, state |-> conn[p]]}
    /\ opCalls' = <<>>
    /\ LET c == FindChr(chars[p], uuid)
           r == Gate(kind, chars[p], c)
       IN  op' = [kind |-> kind, p |-> p, uuid |-> uuid, data |-> data, chr |-> c,
                  pc |-> IF r.tag = "err" THEN "done" ELSE "platform",
                  result |-> r]
    /\ UNCHANGED <<subscribed, sub, notifs, subOut>>
    /\ UNCHANGED <<platformVars, streamVars, findVars, propsVars>>

\* a write mode taken from the characteristic's flags
WriteModeByFlags(properties) ==
    IF "WRITE_WITHOUT_RESPONSE" \in properties THEN "WithoutResponse" ELSE "WithResponse"

\* the WriteType handed to peripheral.write
WriteMode(properties) == "WithoutResponse"

\* peripheral.read(c) / peripheral.write(c, data, WithoutResponse) /
\* peripheral.subscribe(c), awaited
OpPlatform(ok) ==
    /\ op.pc = "platform"
    /\ opCalls' = Append(opCalls,
                         [call |-> op.kind, p |-> op.p, chr |-> op.chr,
                          data |-> IF op.kind = "write" THEN op.data ELSE <<>>,
                          mode |-> IF op.kind = "write"
                                   THEN WriteMode(chars[op.p][op.chr].properties)
                                   ELSE "none",
                          ok |-> ok])
    /\ IF ~ok
       THEN /\ op' = [op EXCEPT !.pc = "done", !.result = OpErr("BtlePlug")]
            /\ UNCHANGED subscribed
       ELSE CASE op.kind = "read" ->
                    /\ op' = [op EXCEPT !.pc = "done", !.result = OpOk(ReadValue)]
                    /\ UNCHANGED subscribed
              [] op.kind = "write" ->
                    /\ op' = [op EXCEPT !.pc = "done", !.result = OpOk(<<>>)]
                    /\ UNCHANGED subscribed
              [] OTHER ->
                    /\ op' = [op EXCEPT !.pc = "notifications"]
                    /\ subscribed' = [subscribed EXCEPT ![op.p] = @ \cup {op.chr}]
    /\ UNCHANGED <<nOps, charLookups, sub, notifs, subOut>>
    /\ UNCHANGED <<platformVars, streamVars, findVars, propsVars>>

\* a stream request that takes the subscription back when it fails
OpNotificationsRollback(ok) ==
    /\ op.pc = "notifications"
    /\ opCalls' = Append(opCalls,
                         [call |-> "notifications", p |-> op.p, chr |-> 0,
                          data |-> <<>>, mode |-> "none", ok |-> ok])
    /\ IF ok
       THEN /\ op' = [op EXCEPT !.pc = "done", !.result = OpOk(<<>>)]
            /\ sub' = [active |-> TRUE, p |-> op.p, uuid |-> op.uuid, pos |-> 0]
            /\ notifs' = <<>>
            /\ subOut' = <<>>
            /\ UNCHANGED subscribed
       ELSE /\ op' = [op EXCEPT !.pc = "done", !.result = OpErr("BtlePlug")]
            /\ subscribed' = [subscribed EXCEPT ![op.p] = @ \ {op.chr}]
            /\ UNCHANGED <<sub, notifs, subOut>>
    /\ UNCHANGED <<nOps, charLookups>>
    /\ UNCHANGED <<platformVars, streamVars, findVars, propsVars>>

\* peripheral.notifications().await?, then the filter over it is returned
OpNotifications(ok) ==
    /\ op.pc = "notifications"
    /\ opCalls' = Append(opCalls,
                         [call |-> "notifications", p |-> op.p, chr |-> 0,
                          data |-> <<>>, mode |-> "none", ok |-> ok])
    /\ IF ok
       THEN /\ op' = [op EXCEPT !.pc = "done", !.result = OpOk(<<>>)]
            /\ sub' = [active |-> TRUE, p |-> op.p, uuid |-> op.uuid, pos |-> 0]
            /\ notifs' = <<>>
            /\ subOut' = <<>>
       ELSE /\ op' = [op EXCEPT !.pc = "done", !.result = OpErr("BtlePlug")]
            /\ UNCHANGED <<sub, notifs, subOut>>
    /\ UNCHANGED <<nOps, charLookups, subscribed>>
    /\ UNCHANGED <<platformVars, streamVars, findVars, propsVars>>

\* the platform: the peripheral notifies a value of a subscribed
\* characteristic; the stream's receiver gets it
Notify(c) ==
    /\ sub.active
    /\ c \in subscribed[sub.p]
    /\ Len(notifs) < MaxNotifs
    /\ notifs' = Append(notifs, [uuid |-> chars[sub.p][c].uuid, val |-> Len(notifs) + 1])
    /\ UNCHANGED <<op, opCalls, nOps, charLookups, subscribed, sub, subOut>>
    /\ UNCHANGED <<platformVars, streamVars, findVars, propsVars>>

\* a filter that lets every notification of the peripheral through
SubFilterAll(n, uuid) == UuidFromBytes(AsBytes(n.uuid)) = UuidFromBytes(AsBytes(n.uuid))

\* the filter of subscribe's stream
SubFilter(n, uuid) == UuidFromBytes(AsBytes(n.uuid)) = uuid

\* the consumer polls the stream: the filter takes the next notification
SubNext ==
    /\ sub.active
    /\ sub.pos < Len(notifs)
    /\ sub' = [sub EXCEPT !.pos = @ + 1]
    /\ LET n == notifs[sub.pos + 1]
       IN  IF SubFilter(n, sub.uuid)
           THEN subOut' = Emit(subOut, n)
           ELSE UNCHANGED subOut
    /\ UNCHANGED <<op, opCalls, nOps, charLookups, subscribed, notifs>>
    /\ UNCHANGED <<platformVars, streamVars, findVars, propsVars>>

(***************************************************************************)
(* Specifications.  Spec: one find_peripheral call on the adapter.         *)
(* SpecStreams: one peripheral_properties stream and its consumer.         *)
(* SpecOps: the calls on the peripheral find_peripheral returns; it starts *)
(* where find_peripheral's loop has just matched the first peripheral the  *)
(* adapter reported (a state Spec reaches, see NoMatchYet).                *)
(***************************************************************************)
Next ==
    \/ \E e \in Events : Deliver(e)
    \/ AdapterShutdown
    \/ \E n \in Needles, ok \in BOOLEAN : FindCall(n, ok)
    \/ \E ok \in BOOLEAN : StartScan("find", ok)
    \/ ProjPull("find")
    \/ \E ok \in BOOLEAN : ProjLookup("find", ok)
    \/ FindStreamEnd
    \/ \E o \in FetchOutcomes : FindFetch(o)
    \/ \E ok \in BOOLEAN : FindConnect(ok)
    \/ \E ok \in BOOLEAN, tbl \in CharTables : FindDiscover(ok, tbl)

Spec == Init /\ [][Next]_vars

NextStreams ==
    \/ \E e \in Events : Deliver(e)
    \/ AdapterShutdown
    \/ \E ok \in BOOLEAN : PropsCall(ok)
    \/ \E ok \in BOOLEAN : StartScan("props", ok)
    \/ PropsNext
    \/ ProjPull("props")
    \/ \E ok \in BOOLEAN : ProjLookup("props", ok)
    \/ PropsStreamEnd
    \/ \E o \in FetchOutcomes : PropsFetch(o)

SpecStreams == Init /\ [][NextStreams]_vars

Matched(p) ==
    /\ host = HostOne
    /\ central = Ok(1)
    /\ delivered = <<[kind |-> "DeviceUpdated", id |-> p]>>
    /\ adapterOpen = TRUE
    /\ scanStarts = 1
    /\ scanning = ScanFilterDefault
    /\ conn = [i \in Ids |-> "Discovered"]
    /\ chars = [i \in Ids |-> <<>>]
    /\ pc = [s \in Sessions |-> IF s = "find" THEN "connect" ELSE "idle"]
    /\ rx = [s \in Sessions |-> [from |-> 0, pos |-> IF s = "find" THEN 1 ELSE 0]]
    /\ cur = [s \in Sessions |-> IF s = "find" THEN [idx |-> 1, id |-> p] ELSE NoItem]
    /\ lookups = [s \in Sessions |->
                     IF s = "find" THEN <<[idx |-> 1, id |-> p, ok |-> TRUE]>> ELSE <<>>]
    /\ periphOut = [s \in Sessions |->
                       IF s = "find" THEN <<[idx |-> 1, id |-> p]>> ELSE <<>>]
    /\ fetches = [s \in Sessions |->
                     IF s = "find"
                     THEN <<[idx |-> 1, id |-> p, out |-> [tag |-> "name", name |-> FooBar]]>>
                     ELSE <<>>]
    /\ result = [s \in Sessions |-> Pending]
    /\ trace = [s \in Sessions |->
                   IF s = "find"
                   THEN <<Step("events", 0, TRUE), Step("start_scan", 0, TRUE),
                          Step("properties", 1, TRUE)>>
                   ELSE <<>>]
    /\ needle = Foo
    /\ findCalls = <<>>
    /\ endPolls = 0
    /\ propsOut = <<>>
    /\ op = NoOp
    /\ opCalls = <<>>
    /\ nOps = 0
    /\ charLookups = {}
    /\ subscribed = [i \in Ids |-> {}]
    /\ sub = NoSub
    /\ notifs = <<>>
    /\ subOut = <<>>

InitOps == \E p \in Ids : Matched(p)

NextOps ==
    \/ \E ok \in BOOLEAN : FindConnect(ok)
    \/ \E ok \in BOOLEAN, tbl \in CharTables : FindDiscover(ok, tbl)
    \/ \E kind \in OpKinds, p \in Ids, uuid \in Uuids :
            \E data \in OpData(kind) : OpCall(kind, p, uuid, data)
    \/ \E ok \in BOOLEAN : OpPlatform(ok)
    \/ \E ok \in BOOLEAN : OpNotifications(ok)
    \/ \E c \in UNION {subscribed[i] : i \in Ids} : Notify(c)
    \/ SubNext

SpecOps == InitOps /\ [][NextOps]_vars

\* SpecCalls: one find_peripheral call from construction on, then the calls
\* on the peripheral it returned.  The adapter's steps are taken while the
\* receiver of find_peripheral exists (it is dropped when the call returns),
\* and the adapter delivers MaxCallEvents events.
ReceiverLive(s) == pc[s] \notin {"idle", "done"}

DeliverFew(e) ==
    /\ ReceiverLive("find")
    /\ Len(delivered) < MaxCallEvents
    /\ Deliver(e)

ShutdownLive ==
    /\ ReceiverLive("find")
    /\ AdapterShutdown

NextCalls ==
    \/ \E e \in Events : DeliverFew(e)
    \/ ShutdownLive
    \/ \E n \in Needles, ok \in BOOLEAN : FindCall(n, ok)
    \/ \E ok \in BOOLEAN : StartScan("find", ok)
    \/ ProjPull("find")
    \/ \E ok \in BOOLEAN : ProjLookup("find", ok)
    \/ FindStreamEnd
    \/ \E o \in FetchOutcomes : FindFetch(o)
    \/ \E ok \in BOOLEAN : FindConnect(ok)
    \/ \E ok \in BOOLEAN, tbl \in CharTables : FindDiscover(ok, tbl)
    \/ \E kind \in OpKinds, p \in Ids, uuid \in Uuids :
            \E data \in OpData(kind) : OpCall(kind, p, uuid, data)
    \/ \E ok \in BOOLEAN : OpPlatform(ok)
    \/ \E ok \in BOOLEAN : OpNotifications(ok)

SpecCalls == Init /\ [][NextCalls]_vars

\* SpecBoth: a find_peripheral call and a peripheral_properties call on the
\* one adapter, interleaved; the consumer of the properties stream does not
\* poll it and may drop it.
NextBoth ==
    \/ \E e \in Events : DeliverFew(e)
    \/ AdapterShutdown
    \/ \E n \in Needles, ok \in BOOLEAN : FindCall(n, ok)
    \/ \E ok \in BOOLEAN : PropsCall(ok)
    \/ \E s \in Sessions, ok \in BOOLEAN : StartScan(s, ok)
    \/ PropsDrop
    \/ ProjPull("find")
    \/ \E ok \in BOOLEAN : ProjLookup("find", ok)
    \/ FindStreamEnd
    \/ \E o \in FetchOutcomes : FindFetch(o)
    \/ \E ok \in BOOLEAN : FindConnect(ok)
    \/ \E ok \in BOOLEAN, tbl \in CharTables : FindDiscover(ok, tbl)

SpecBoth == Init /\ [][NextBoth]_vars

\* SpecNew: construction over every platform outcome, followed by a
\* find_peripheral call on the constructed handle.
NextNew ==
    \/ New
    \/ \E e \in Events : DeliverFew(e)
    \/ AdapterShutdown
    \/ \E n \in Needles, ok \in BOOLEAN : FindCall(n, ok)
    \/ \E ok \in BOOLEAN : StartScan("find", ok)
    \/ ProjPull("find")
    \/ \E ok \in BOOLEAN : ProjLookup("find", ok)
    \/ FindStreamEnd
    \/ \E o \in FetchOutcomes : FindFetch(o)
    \/ \E ok \in BOOLEAN : FindConnect(ok)
    \/ \E ok \in BOOLEAN, tbl \in CharTables : FindDiscover(ok, tbl)

SpecNew == InitNew /\ [][NextNew]_vars

\* TLC finds this violated under Spec: a state SpecOps starts in is a state
\* Spec reaches
NoMatchYet == \A p \in Ids : ~Matched(p)

(***************************************************************************)
(* Properties of find_peripheral (Spec).                                   *)
(***************************************************************************)
\* pat occurs in hay: hay is some prefix, then pat, then some suffix
IsSubstring(pat, hay) ==
    \E i \in 0..Len(hay), j \in 0..Len(hay) : i <= j /\ SubSeq(hay, i + 1, j) = pat

FindFetches == fetches["find"]
LastFetch == FindFetches[Len(FindFetches)]
IsMatch(f) == f.out.tag = "name" /\ IsSubstring(needle, f.out.name)
\* the loop has ended with a peripheral
LoopBroke ==
    \/ pc["find"] \in {"connect", "discover"}
    \/ findCalls # <<>>
    \/ result["find"].tag = "ok"

\* C3: find_peripheral matches by case-sensitive substring containment: the
\* peripheral it goes on with, and returns, is the earliest item of the
\* peripheral stream whose local name contains the name asked for, and every
\* earlier item had a local name that does not contain it.
C3_SubstringMatch ==
    /\ Len(FindFetches) <= Len(periphOut["find"])
    /\ \A k \in 1..Len(FindFetches) :
          /\ FindFetches[k].idx = periphOut["find"][k].idx
          /\ FindFetches[k].id = periphOut["find"][k].id
          /\ IsMatch(FindFetches[k]) => (k = Len(FindFetches) /\ LoopBroke)
    /\ LoopBroke =>
          /\ FindFetches # <<>>
          /\ IsMatch(LastFetch)
          /\ \A k \in 1..(Len(FindFetches) - 1) :
                /\ FindFetches[k].out.tag = "name"
                /\ ~IsSubstring(needle, FindFetches[k].out.name)
          /\ result["find"].tag = "ok" => result["find"].p = LastFetch.id

C3_Witness ==
    /\ result["find"].tag = "ok"
    /\ needle = Foo
    /\ Len(FindFetches) = 2
    /\ FindFetches[1].out.name = Bar
    /\ FindFetches[2].out.name = FooBar
    /\ FindFetches[2].id = result["find"].p

\* C4: on the first match find_peripheral pulls no further item of the
\* stream, issues connect once, then service discovery once and only after
\* connect succeeded, and returns the peripheral only after both succeeded;
\* without a match connect is not issued, and after a failed connect service
\* discovery is not issued and an error is returned.
C4_ConnectThenDiscover ==
    /\ Len(findCalls) <= 2
    /\ ~LoopBroke => findCalls = <<>>
    /\ LoopBroke =>
          /\ FindFetches # <<>>
          /\ IsMatch(LastFetch)
          /\ rx["find"].pos = LastFetch.idx
          /\ lookups["find"][Len(lookups["find"])].idx = LastFetch.idx
          /\ Len(periphOut["find"]) = Len(FindFetches)
          /\ \A i \in 1..Len(findCalls) :
                /\ findCalls[i].p = LastFetch.id
                /\ findCalls[i].call = IF i = 1 THEN "connect" ELSE "discover_services"
          /\ pc["find"] = "connect" => findCalls = <<>>
          /\ pc["find"] = "discover" =>
                (Len(findCalls) = 1 /\ conn[LastFetch.id] = "Connected")
          /\ Len(findCalls) = 2 => conn[LastFetch.id] # "Discovered"
          /\ (pc["find"] = "done" /\ Len(findCalls) = 1) =>
                /\ result["find"] = Err("BtlePlug")
                /\ conn[LastFetch.id] = "Discovered"
          /\ result["find"].tag = "ok" =>
                /\ Len(findCalls) = 2
                /\ conn[LastFetch.id] = "ServicesResolved"
                /\ result["find"].p = LastFetch.id

C4_Witness ==
    /\ result["find"].tag = "ok"
    /\ Len(findCalls) = 2
    /\ rx["find"].pos < Len(delivered)
    /\ delivered[Len(delivered)].kind = "DeviceUpdated"

\* C5: once the stream is exhausted without a match, find_peripheral has
\* not returned and does not return: it has neither a peripheral nor an
\* error, and keeps polling the stream.
C5_ExhaustedNeverReturns ==
    endPolls > 0 =>
        /\ result["find"] = Pending
        /\ pc["find"] = "pull"
        /\ findCalls = <<>>
        /\ ~adapterOpen
        /\ rx["find"].pos = Len(delivered)

C5_Witness ==
    /\ endPolls >= 2
    /\ Len(FindFetches) >= 1
    /\ result["find"] = Pending

FetchErrorOf ==
    [err |-> "BtlePlug", absent |-> "PeripheralPropertiesNotFound",
     noname |-> "LocalNameNotFound"]

\* C6: a candidate whose property fetch fails, whose properties are absent
\* or whose local name is absent aborts the search: find_peripheral returns
\* the platform error, PeripheralPropertiesNotFound or LocalNameNotFound, no
\* later item of the stream is taken, and neither connect nor service
\* discovery is issued.
C6_FetchFailureAborts ==
    \A k \in 1..Len(FindFetches) :
        FindFetches[k].out.tag # "name" =>
            /\ k = Len(FindFetches)
            /\ pc["find"] = "done"
            /\ result["find"] = Err(FetchErrorOf[FindFetches[k].out.tag])
            /\ rx["find"].pos = FindFetches[k].idx
            /\ findCalls = <<>>
            /\ \A i \in Ids : conn[i] = "Discovered"

C6_Witness ==
    /\ result["find"] = Err("LocalNameNotFound")
    /\ Len(FindFetches) = 2
    /\ rx["find"].pos < Len(delivered)
    /\ delivered[Len(delivered)].kind = "DeviceUpdated"

(***************************************************************************)
(* Properties of read / write / subscribe (SpecOps).                       *)
(***************************************************************************)
NeededFlag == [read |-> "READ", write |-> "WRITE", subscribe |-> "NOTIFY"]
CapabilityErrorOf ==
    [read |-> "CharacteristicDoesNotSupportRead",
     write |-> "CharacteristicDoesNotSupportWrite",
     subscribe |-> "CharacteristicDoesNotSupportNotify"]

\* C1: read, write and subscribe issue no platform call (read, write,
\* subscribe, notification-stream request) for a characteristic whose flags
\* lack READ, WRITE, NOTIFY respectively; such a call has returned the
\* capability error of its kind with zero platform calls made.
C1_CapabilityGate ==
    op.kind \in OpKinds =>
        /\ opCalls # <<>> =>
              /\ op.chr # 0
              /\ NeededFlag[op.kind] \in chars[op.p][op.chr].properties
              /\ \A i \in 1..Len(opCalls) :
                    opCalls[i].call # "notifications" =>
                        /\ opCalls[i].call = op.kind
                        /\ opCalls[i].p = op.p
                        /\ NeededFlag[op.kind] \in chars[op.p][opCalls[i].chr].properties
        /\ (op.chr # 0 /\ NeededFlag[op.kind] \notin chars[op.p][op.chr].properties) =>
              /\ op.pc = "done"
              /\ op.result = OpErr(CapabilityErrorOf[op.kind])
              /\ opCalls = <<>>

C1_Witness ==
    /\ op.kind = "write"
    /\ op.chr # 0
    /\ "WRITE" \notin chars[op.p][op.chr].properties
    /\ chars[op.p][op.chr].properties # {}
    /\ op.result = OpErr("CharacteristicDoesNotSupportWrite")
    /\ opCalls = <<>>

C9_SubscribeFilter ==
    sub.active =>
        LET taken == SubSeq(notifs, 1, sub.pos)
            IsTarget(n) == n.uuid = sub.uuid
        IN  /\ subOut = SelectSeq(taken, IsTarget)
            /\ \A k \in 1..Len(subOut) : subOut[k].uuid = sub.uuid

C9_Witness ==
    /\ sub.active
    /\ sub.uuid = UuidA
    /\ sub.pos = 3
    /\ notifs[1].uuid = UuidA
    /\ notifs[2].uuid = UuidB
    /\ notifs[3].uuid = UuidA
    /\ subOut = <<notifs[1], notifs[3]>>

(***************************************************************************)
(* Properties of the projection streams (SpecStreams).                     *)
(***************************************************************************)
LookupsAt(s, i) == {k \in 1..Len(lookups[s]) : lookups[s][k].idx = i}
EmittedAt(s, i) == {k \in 1..Len(periphOut[s]) : periphOut[s][k].idx = i}
Taken(s) == (rx[s].from + 1)..rx[s].pos
StreamLive(s) == pc[s] \in {"ready", "pull", "lookup", "fetch", "ended"}

\* C7: the peripherals stream emits exactly one handle for each "device
\* updated" event whose identifier the adapter resolves and nothing for any
\* other event: an event of another kind is dropped without a lookup, a
\* failed lookup drops the event without an error and without ending the
\* stream, which ends only when the adapter's event stream has ended.
C7_EventProjector ==
    \A s \in Sessions :
        /\ \A k \in 1..Len(lookups[s]) : lookups[s][k].idx \in Taken(s)
        /\ \A k \in 1..Len(periphOut[s]) : periphOut[s][k].idx \in Taken(s)
        /\ \A i \in Taken(s) :
              LET ev == delivered[i]
                  inFlight == pc[s] = "lookup" /\ cur[s].idx = i
              IN  IF ev.kind # "DeviceUpdated" \/ inFlight
                  THEN LookupsAt(s, i) = {} /\ EmittedAt(s, i) = {}
                  ELSE /\ Cardinality(LookupsAt(s, i)) = 1
                       /\ \A k \in LookupsAt(s, i) :
                             /\ lookups[s][k].id = ev.id
                             /\ IF lookups[s][k].ok
                                THEN /\ Cardinality(EmittedAt(s, i)) = 1
                                     /\ \A j \in EmittedAt(s, i) :
                                           periphOut[s][j].id = ev.id
                                ELSE EmittedAt(s, i) = {}
        /\ pc[s] = "ended" => (~adapterOpen /\ rx[s].pos = Len(delivered))
        /\ (s = "props" /\ StreamLive(s)) => result[s] = Ok(0)

C7_Witness ==
    /\ pc["props"] = "ended"
    /\ Len(periphOut["props"]) = 1
    /\ \E k \in 1..Len(lookups["props"]) : ~lookups["props"][k].ok
    /\ \E i \in Taken("props") : delivered[i].kind # "DeviceUpdated"

PropsFetches == fetches["props"]
PropsAt(i) == {j \in 1..Len(propsOut) : propsOut[j].idx = i}

\* C8: the peripheral_properties stream emits a properties record for a
\* handle exactly when its property fetch succeeded with a present value; a
\* handle whose fetch failed or yielded no value gives no item and no error,
\* does not end the stream, and the handles after it are still fetched.
C8_PropertiesProjector ==
    /\ \A j \in 1..Len(propsOut) :
          \E k \in 1..Len(PropsFetches) : PropsFetches[k].idx = propsOut[j].idx
    /\ \A k \in 1..Len(PropsFetches) :
          LET f == PropsFetches[k]
          IN  /\ f.idx = periphOut["props"][k].idx
              /\ IF f.out.tag \in {"name", "noname"}
                 THEN /\ Cardinality(PropsAt(f.idx)) = 1
                      /\ \A j \in PropsAt(f.idx) : propsOut[j].props = f.out
                 ELSE PropsAt(f.idx) = {}
    /\ Len(periphOut["props"]) =
          Len(PropsFetches) + (IF pc["props"] = "fetch" THEN 1 ELSE 0)
    /\ PropsFetches # <<>> => result["props"] = Ok(0)
    /\ pc["props"] = "ended" => (~adapterOpen /\ rx["props"].pos = Len(delivered))

C8_Witness ==
    /\ Len(PropsFetches) = 3
    /\ PropsFetches[1].out.tag = "err"
    /\ PropsFetches[2].out.tag = "absent"
    /\ PropsFetches[3].out.tag = "noname"
    /\ Len(propsOut) = 1
    /\ pc["props"] = "ready"

\* C10: within the peripherals stream and within the peripheral_properties
\* stream the items come out in the order of the adapter events they come
\* from: each output is an order-preserving image of a subsequence of the
\* events delivered.
C10_OrderPreserved ==
    /\ \A s \in Sessions :
          /\ \A k \in 1..Len(periphOut[s]) :
                /\ periphOut[s][k].idx \in 1..Len(delivered)
                /\ periphOut[s][k].id = delivered[periphOut[s][k].idx].id
          /\ \A j \in 1..Len(periphOut[s]), k \in 1..Len(periphOut[s]) :
                j < k => periphOut[s][j].idx < periphOut[s][k].idx
    /\ \A j \in 1..Len(propsOut), k \in 1..Len(propsOut) :
          j < k => propsOut[j].idx < propsOut[k].idx
    /\ \A k \in 1..Len(propsOut) : propsOut[k].idx \in 1..Len(delivered)

C10_Witness ==
    /\ Len(propsOut) = 2
    /\ Len(periphOut["props"]) = 3
    /\ propsOut[1].idx = 1
    /\ propsOut[2].idx = 3

\* the resolved list of the call's peripheral holds a characteristic with
\* the call's UUID
UuidPresent == \E i \in 1..Len(chars[op.p]) : chars[op.p][i].uuid = op.uuid

\* C11: read, write and subscribe return CharacteristicNotFound when the
\* resolved characteristic list holds no characteristic with the target
\* UUID, never a capability error, and issue no platform call; they return
\* CharacteristicNotFound in no other case.
C11_CharacteristicNotFound ==
    op.kind \in OpKinds =>
        /\ ~UuidPresent =>
              /\ op.pc = "done"
              /\ op.chr = 0
              /\ op.result = OpErr("CharacteristicNotFound")
              /\ opCalls = <<>>
        /\ op.result.e = "CharacteristicNotFound" => ~UuidPresent

C11_Witness ==
    /\ op.kind = "subscribe"
    /\ op.uuid = UuidC
    /\ chars[op.p] = TableOne
    /\ op.result = OpErr("CharacteristicNotFound")
    /\ opCalls = <<>>

\* the index of the first characteristic of the call's peripheral that has
\* the call's UUID
FirstWithUuid ==
    CHOOSE i \in 1..Len(chars[op.p]) :
        /\ chars[op.p][i].uuid = op.uuid
        /\ \A j \in 1..(i - 1) : chars[op.p][j].uuid # op.uuid

\* C12: a write to a characteristic that has the WRITE flag makes one
\* platform write, addressed to the located characteristic, with exactly the
\* caller's bytes and in "without response" mode whatever the other flags
\* are, and returns success when the transport accepts it.
C12_WriteForwardsPayload ==
    (op.kind = "write" /\ UuidPresent /\ "WRITE" \in chars[op.p][FirstWithUuid].properties) =>
        /\ Len(opCalls) <= 1
        /\ op.pc = "platform" => opCalls = <<>>
        /\ op.pc = "done" =>
              /\ Len(opCalls) = 1
              /\ opCalls[1].call = "write"
              /\ opCalls[1].p = op.p
              /\ opCalls[1].chr = FirstWithUuid
              /\ opCalls[1].data = op.data
              /\ opCalls[1].mode = "WithoutResponse"
              /\ op.result = IF opCalls[1].ok THEN OpOk(<<>>) ELSE OpErr("BtlePlug")

C12_Witness ==
    /\ op.kind = "write"
    /\ op.data = <<1, 2>>
    /\ op.result = OpOk(<<>>)
    /\ opCalls[1].data = <<1, 2>>
    /\ "WRITE_WITHOUT_RESPONSE" \notin chars[op.p][op.chr].properties

(***************************************************************************)
(* Properties of whole calls (SpecCalls).                                  *)
(***************************************************************************)
\* the platform steps of the current read / write / subscribe call
OpSteps == [i \in 1..Len(opCalls) |-> Step(opCalls[i].call, 0, opCalls[i].ok)]

\* no step of t is issued twice (a property fetch: twice for one item), and
\* a step the platform failed is the last one
NoRetry(t) ==
    /\ \A i \in 1..Len(t), j \in 1..Len(t) :
          (i < j /\ t[i].step = t[j].step) =>
              (t[i].step = "properties" /\ t[i].idx # t[j].idx)
    /\ \A i \in 1..Len(t) : ~t[i].ok => i = Len(t)

HasFailed(t) == \E i \in 1..Len(t) : ~t[i].ok

\* C13: in find_peripheral, read, write and subscribe every platform step
\* (scan start, property fetch per item, connect, service discovery, read,
\* write, subscribe, notification-stream request) is issued at most once per
\* call; the first platform error ends the call, is its result, and no
\* platform step of the call follows it.
C13_FailuresTerminal ==
    /\ NoRetry(trace["find"])
    /\ HasFailed(trace["find"]) =>
          (pc["find"] = "done" /\ result["find"] = Err("BtlePlug"))
    /\ NoRetry(OpSteps)
    /\ HasFailed(OpSteps) =>
          (op.pc = "done" /\ op.result = OpErr("BtlePlug"))

C13_Witness ==
    /\ Len(trace["find"]) = 6
    /\ result["find"].tag = "ok"
    /\ op.kind = "subscribe"
    /\ Len(opCalls) = 2
    /\ ~opCalls[2].ok
    /\ op.result = OpErr("BtlePlug")

(***************************************************************************)
(* Scan starts per discovery session.                                      *)
(***************************************************************************)
ScanSteps(s) == {i \in 1..Len(trace[s]) : trace[s][i].step = "start_scan"}
EventsObtained(s) == \E i \in 1..Len(trace[s]) : trace[s][i] = Step("events", 0, TRUE)
ScanIssued(s) == EventsObtained(s) /\ pc[s] # "scan"
ScanStarted(s) == \E i \in ScanSteps(s) : trace[s][i].ok

Enumerated == host.mgr /\ host.enum.ok

\* C15: once new() has returned, it returned a handle exactly when the
\* platform manager was created and the enumeration succeeded with at least
\* one adapter, and the handle then holds the first adapter of the
\* enumeration, however many there are and whatever the handle was used for
\* since; it returned AdapterNotFound exactly when the enumeration succeeded
\* and was empty, and the platform error otherwise.
C15_FirstAdapter ==
    central # Pending =>
        /\ central.tag = "ok" <=> (Enumerated /\ Len(host.enum.list) > 0)
        /\ central.tag = "ok" => central.p = Head(host.enum.list)
        /\ central = Err("AdapterNotFound") <=> (Enumerated /\ host.enum.list = <<>>)
        /\ central = Err("BtlePlug") <=> ~Enumerated

\* the platform enumerated several adapters and find_peripheral has run to
\* its return on the handle
C15_Witness ==
    /\ central.tag = "ok"
    /\ Len(host.enum.list) > 1
    /\ result["find"].tag = "ok"

(***************************************************************************)
(* Laziness of the projection streams.                                     *)
(***************************************************************************)
Polling == pc["props"] \in {"pull", "lookup", "fetch"}
Work == <<rx["props"].pos - rx["props"].from, lookups["props"], fetches["props"], periphOut["props"], propsOut>>
Outstanding == {i \in (rx["props"].pos + 1)..Len(delivered) : delivered[i].kind = "DeviceUpdated"}

\* what holds of the stream between steps: the one item in flight is the
\* event taken last, and when an item was handed out nothing was taken
\* beyond the event it came from
OneInFlight ==
    /\ pc["props"] \in {"lookup", "fetch"} =>
           (cur["props"].idx = rx["props"].pos /\ cur["props"].idx > rx["props"].from)
    /\ pc["props"] \in {"ready", "pull", "ended"} => cur["props"] = NoItem
    /\ pc["props"] = "ready" =>
           rx["props"].pos = IF propsOut = <<>> THEN rx["props"].from
                             ELSE propsOut[Len(propsOut)].idx
    /\ Len(lookups["props"]) - Len(fetches["props"]) - Cardinality({k \in 1..Len(lookups["props"]) : ~lookups["props"][k].ok})
           = IF pc["props"] = "fetch" THEN 1 ELSE 0

\* what holds of every step: an event is taken, a peripheral looked up or
\* properties fetched only while a pull of the consumer is being served; a
\* step that hands an item out hands out one and ends the pull; and while
\* the consumer does not pull, whatever the adapter delivers, the stream
\* takes nothing and asks the platform nothing
LazyStep ==
    /\ Work' # Work => Polling
    /\ propsOut' # propsOut =>
           (Len(propsOut') = Len(propsOut) + 1 /\ pc'["props"] = "ready")
    /\ pc["props"] = "ready" =>
           (Work' = Work /\ pc'["props"] \in {"ready", "pull", "dropped"})

\* C16: the streams of peripherals() and peripheral_properties() work only
\* while a consumer pull is pending, carry at most one item at a time and
\* buffer nothing; a consumer that does not pull leaves the adapter's events
\* untaken and the platform unasked.
C16_PullDriven == []OneInFlight /\ [][LazyStep]_vars

\* the consumer holds an item and does not pull while the adapter has
\* delivered further DeviceUpdated events: they stay untaken
C16_Witness ==
    /\ pc["props"] = "ready"
    /\ propsOut # <<>>
    /\ Outstanding # {}
    /\ Len(lookups["props"]) = Len(propsOut)

(***************************************************************************)
(* The write gate and the write mode.                                      *)
(***************************************************************************)
\* C17: write checks the WRITE flag and no other.  A located characteristic
\* with WRITE_WITHOUT_RESPONSE and without WRITE is refused with
\* CharacteristicDoesNotSupportWrite and no platform call is made; a located
\* characteristic with WRITE and without WRITE_WITHOUT_RESPONSE passes the
\* check and its one platform write is made in "without response" mode.
C17_WriteGateOnWriteOnly ==
    (op.kind = "write" /\ UuidPresent) =>
        LET fl == chars[op.p][FirstWithUuid].properties
        IN  /\ ("WRITE_WITHOUT_RESPONSE" \in fl /\ "WRITE" \notin fl) =>
                  /\ op.pc = "done"
                  /\ op.result = OpErr("CharacteristicDoesNotSupportWrite")
                  /\ opCalls = <<>>
            /\ ("WRITE" \in fl /\ "WRITE_WITHOUT_RESPONSE" \notin fl) =>
                  /\ op.result.e # "CharacteristicDoesNotSupportWrite"
                  /\ op.pc \in {"platform", "done"}
                  /\ Len(opCalls) = IF op.pc = "done" THEN 1 ELSE 0
                  /\ \A i \in 1..Len(opCalls) :
                        opCalls[i].call = "write" /\ opCalls[i].mode = "WithoutResponse"

\* a write to a characteristic that has WRITE_WITHOUT_RESPONSE and NOTIFY
\* only was refused before any platform call
C17_Witness ==
    /\ op.kind = "write"
    /\ op.uuid = UuidB
    /\ chars[op.p] = TableOne
    /\ chars[op.p][op.chr].properties = {"WRITE_WITHOUT_RESPONSE", "NOTIFY"}
    /\ op.result = OpErr("CharacteristicDoesNotSupportWrite")
    /\ opCalls = <<>>

(***************************************************************************)
(* Order of subscribe's platform calls.                                    *)
(***************************************************************************)
SubscribeOrder ==
    op.kind = "subscribe" =>
        /\ Len(opCalls) <= 2
        /\ \A i \in 1..Len(opCalls) :
              opCalls[i].call = IF i = 1 THEN "subscribe" ELSE "notifications"
        /\ op.pc = "notifications" <=> (Len(opCalls) = 1 /\ opCalls[1].ok)
        /\ (Len(opCalls) >= 1 /\ ~opCalls[1].ok) =>
              /\ Len(opCalls) = 1
              /\ op.pc = "done"
              /\ op.result = OpErr("BtlePlug")
        /\ (Len(opCalls) >= 1 /\ opCalls[1].ok) => opCalls[1].chr \in subscribed[op.p]
        /\ (Len(opCalls) = 2 /\ ~opCalls[2].ok) =>
              /\ op.pc = "done"
              /\ op.result = OpErr("BtlePlug")
              /\ opCalls[1].chr \in subscribed[op.p]

NoUnsubscribe == \A i \in Ids : subscribed[i] \subseteq subscribed'[i]

\* C18: subscribe makes the platform subscribe request first and requests
\* the notification stream only after that request succeeded; when the
\* subscribe request fails the stream is never requested; when the stream
\* request fails the call returns the platform error and the peripheral
\* stays subscribed to the characteristic.  No step takes a subscription
\* away.
C18_SubscribeBeforeStream == []SubscribeOrder /\ [][NoUnsubscribe]_vars

\* the subscribe request succeeded, the stream request failed: the call
\* returned the platform error and the subscription is still in place
C18_Witness ==
    /\ op.kind = "subscribe"
    /\ Len(opCalls) = 2
    /\ opCalls[1].ok /\ ~opCalls[2].ok
    /\ op.result = OpErr("BtlePlug")
    /\ op.chr \in subscribed[op.p]
    /\ ~sub.active

(***************************************************************************)
(* Several characteristics with the target UUID.                           *)
(***************************************************************************)
WithUuid == {i \in 1..Len(chars[op.p]) : chars[op.p][i].uuid = op.uuid}

\* C19: when the characteristic list of the peripheral holds several
\* characteristics with the target UUID, read, write and subscribe locate
\* the first of them in list order; the capability check reads its flags
\* and the platform call is addressed to it.  When it lacks the required
\* flag the call returns the capability error with no platform call made,
\* also when a later characteristic with that UUID has the flag.
C19_FirstOfDuplicates ==
    (op.kind \in OpKinds /\ Cardinality(WithUuid) > 1) =>
        /\ op.chr \in WithUuid
        /\ \A j \in WithUuid : op.chr <= j
        /\ NeededFlag[op.kind] \notin chars[op.p][op.chr].properties =>
              /\ op.pc = "done"
              /\ op.result = OpErr(CapabilityErrorOf[op.kind])
              /\ opCalls = <<>>
        /\ NeededFlag[op.kind] \in chars[op.p][op.chr].properties =>
              op.result.e \notin {"CharacteristicNotFound", CapabilityErrorOf[op.kind]}
        /\ \A i \in 1..Len(opCalls) :
              opCalls[i].call # "notifications" => opCalls[i].chr = op.chr

\* the first characteristic with the UUID has READ only, a later one has
\* NOTIFY: subscribe returned the capability error
C19_Witness ==
    /\ op.kind = "subscribe"
    /\ Cardinality(WithUuid) > 1
    /\ \E j \in WithUuid : j > op.chr /\ "NOTIFY" \in chars[op.p][j].properties
    /\ "NOTIFY" \notin chars[op.p][op.chr].properties
    /\ op.result = OpErr("CharacteristicDoesNotSupportNotify")
    /\ opCalls = <<>>

(***************************************************************************)
(* events(): the receiver first, then the scan.                            *)
(***************************************************************************)
EventsFailed(s) == trace[s] = <<Step("events", 0, FALSE)>>
ScanFailed(s) == trace[s] = <<Step("events", 0, TRUE), Step("start_scan", 0, FALSE)>>
Untouched(s) ==
    /\ rx[s].pos = rx[s].from
    /\ lookups[s] = <<>>
    /\ periphOut[s] = <<>>
    /\ fetches[s] = <<>>
    /\ s = "props" => propsOut = <<>>
    /\ s = "find" => findCalls = <<>>

EventsThenScan ==
    \A s \in Sessions :
        /\ Len(trace[s]) >= 1 => trace[s][1].step = "events"
        /\ Len(trace[s]) >= 2 =>
              (trace[s][1].ok /\ trace[s][2].step = "start_scan")
        /\ pc[s] = "scan" <=> trace[s] = <<Step("events", 0, TRUE)>>
        /\ pc[s] = "scan" => Untouched(s)
        /\ EventsFailed(s) =>
              /\ pc[s] = "done"
              /\ result[s] = Err("BtlePlug")
              /\ ScanSteps(s) = {}
              /\ Untouched(s)
        /\ ScanFailed(s) =>
              /\ pc[s] = "done"
              /\ result[s] = Err("BtlePlug")
              /\ Untouched(s)
        /\ rx[s].from <= rx[s].pos /\ rx[s].pos <= Len(delivered)

\* the step that starts the scan finds the receiver in place and leaves it
\* alone, with every event delivered since events() still on it; from then on
\* the receiver moves one event at a time and never skips
ReceiverKept ==
    \A s \in Sessions :
        /\ pc[s] = "scan" /\ pc'[s] # "scan" =>
              /\ rx'[s] = rx[s]
              /\ scanStarts' = scanStarts + 1
        /\ scanStarts' # scanStarts => \E t \in Sessions : pc[t] = "scan"
        /\ pc[s] # "idle" =>
              /\ rx'[s].from = rx[s].from
              /\ rx'[s].pos \in {rx[s].pos, rx[s].pos + 1}

\* C20: events() obtains the adapter's event stream and only then starts the
\* scan, so the stream holds every event delivered from before the scan start
\* on, in order and without gaps.  When obtaining the stream fails no scan is
\* started; when the scan start fails the call returns the platform error and
\* the caller gets no stream: peripheral_properties and find_peripheral fail
\* with that error and have looked at no event and no peripheral.
C20_StreamBeforeScan == []EventsThenScan /\ [][ReceiverKept]_vars

\* find_peripheral failed at the scan start although an event was already
\* waiting on its receiver; the properties call obtained its stream
C20_Witness ==
    /\ ScanFailed("find")
    /\ result["find"] = Err("BtlePlug")
    /\ Len(delivered) > rx["find"].from
    /\ ScanStarted("props")
    /\ scanStarts = 2

====
